---- MODULE Spec2Model ----
(***************************************************************************)
(* Model of the schedule-expansion and forecasting engine of the family    *)
(* budget application (src/budget_app/app.py): the monthly and weekly      *)
(* recurrence generators, the transaction assembler and the forecast       *)
(* builder.                                                                *)
(*                                                                         *)
(* A calendar date (pandas Timestamp at midnight) is its proleptic         *)
(* Gregorian ordinal, as datetime.date.toordinal() numbers it; amounts are *)
(* whole currency units.                                                   *)
(***************************************************************************)
EXTENDS Integers, Sequences, FiniteSets, TLC

VARIABLES
    fn,     \* name of the function called last ("none" before any call)
    args,   \* the arguments of that call, a record
    ret,    \* the value the call returned
    cache,  \* the entries st.cache_data holds for the two cached functions
    hit,    \* whether the cache served the last call
    calls,  \* the calls made through the cache so far, with their results
    session_state   \* st.session_state: the keys the script keeps

vars == <<fn, args, ret, cache, hit, calls, session_state>>

-----------------------------------------------------------------------------
(* Bounds of the model.                                                    *)

\* first calendar year of the model (2024 is a leap year)
FirstYear == 2024
\* number of consecutive years from which start and end dates are drawn
NumYears == 2
\* largest total number of rows in the three collections of one call
MaxItems == 2

Years == FirstYear .. (FirstYear + NumYears - 1)
\* a cursor may step past the last end date, into the following year
CalendarYears == FirstYear .. (FirstYear + NumYears)

-----------------------------------------------------------------------------
(* The calendar: what pandas Timestamp / datetime compute.                 *)

Min(a, b) == IF a <= b THEN a ELSE b
Abs(x) == IF x < 0 THEN -x ELSE x

IsLeap(y) == (y % 4 = 0) /\ ((y % 100 # 0) \/ (y % 400 = 0))

\* pd.Period(cursor, freq='M').days_in_month
DaysInMonth(y, m) ==
    IF m = 2 THEN (IF IsLeap(y) THEN 29 ELSE 28)
    ELSE IF m \in {4, 6, 9, 11} THEN 30 ELSE 31

\* the days of year 1 and later that precede year y
DaysBeforeYear(y) ==
    LET p == y - 1
    IN  p * 365 + (p \div 4) - (p \div 100) + (p \div 400)

\* the days of year y that precede month m
DaysBeforeMonth(y, m) ==
    <<0, 31, 59, 90, 120, 151, 181, 212, 243, 273, 304, 334>>[m]
        + (IF m > 2 /\ IsLeap(y) THEN 1 ELSE 0)

\* the Timestamp of year y, month m, day d
Timestamp(y, m, d) == DaysBeforeYear(y) + DaysBeforeMonth(y, m) + d

\* the year, month and day of every date of the calendar years, computed once
Fields ==
    [t \in Timestamp(FirstYear, 1, 1) .. Timestamp(FirstYear + NumYears, 12, 31) |->
        LET y == CHOOSE yy \in CalendarYears :
                     DaysBeforeYear(yy) < t /\ t <= DaysBeforeYear(yy + 1)
            n == t - DaysBeforeYear(y)
            m == CHOOSE mm \in 1..12 :
                     DaysBeforeMonth(y, mm) < n
                         /\ n <= DaysBeforeMonth(y, mm) + DaysInMonth(y, mm)
        IN  [year |-> y, month |-> m, day |-> n - DaysBeforeMonth(y, m)]]

YearOf(t) == Fields[t].year
MonthOf(t) == Fields[t].month
DayOf(t) == Fields[t].day

\* Timestamp.weekday(): Monday is 0
Weekday(t) == (t + 6) % 7

\* Timestamp.replace(day=d) raises ValueError when d is no day of the month
ReplaceRaises(t, d) == d < 1 \/ d > DaysInMonth(YearOf(t), MonthOf(t))

\* Timestamp.replace(day=d)
ReplaceDay(t, d) == Timestamp(YearOf(t), MonthOf(t), d)

\* t + relativedelta(months=1): the next month, the day clamped to its length
AddMonth(t) ==
    LET f == Fields[t]
        y == IF f.month = 12 THEN f.year + 1 ELSE f.year
        m == IF f.month = 12 THEN 1 ELSE f.month + 1
    IN  Timestamp(y, m, Min(f.day, DaysInMonth(y, m)))

-----------------------------------------------------------------------------
(* Monthly recurrence generator: get_dates_monthly.                        *)
(* A result is [raised, dates]: raised is TRUE when the call ends with an  *)
(* uncaught exception instead of returning its list.                       *)

\* the loop without lines 59-61: the day is not re-clamped after the step
RECURSIVE MonthlyLoopNoReclamp(_, _, _, _)
MonthlyLoopNoReclamp(cursor, end, day_of_month, dates) ==
    IF cursor <= end
    THEN MonthlyLoopNoReclamp(AddMonth(cursor), end, day_of_month,
                              Append(dates, cursor))
    ELSE [raised |-> FALSE, dates |-> dates]

\* the while loop: append the cursor, step one month, re-clamp the day
RECURSIVE MonthlyLoop(_, _, _, _)
MonthlyLoop(cursor, end, day_of_month, dates) ==
    IF cursor <= end
    THEN LET stepped == AddMonth(cursor)
             max_d == DaysInMonth(YearOf(stepped), MonthOf(stepped))
             safe_d == Min(day_of_month, max_d)
         IN  IF ReplaceRaises(stepped, safe_d)
             THEN [raised |-> TRUE, dates |-> Append(dates, cursor)]
             ELSE MonthlyLoop(ReplaceDay(stepped, safe_d), end, day_of_month,
                              Append(dates, cursor))
    ELSE [raised |-> FALSE, dates |-> dates]

\* the first candidate: the clamped day in the start month; when replace
\* raises, the cursor stays the start date (try / except: pass)
FirstCandidate(start_date, day_of_month) ==
    LET max_days == DaysInMonth(YearOf(start_date), MonthOf(start_date))
        safe_day == Min(day_of_month, max_days)
    IN  IF ReplaceRaises(start_date, safe_day)
        THEN start_date
        ELSE ReplaceDay(start_date, safe_day)

\* the advance of lines 54-55 left out
AdvanceNever(cursor, start_date) == cursor

\* if cursor < start_date: cursor += relativedelta(months=1)
AdvanceIfBefore(cursor, start_date) ==
    IF cursor < start_date THEN AddMonth(cursor) ELSE cursor

get_dates_monthly(start_date, end_date, day_of_month) ==
    MonthlyLoop(AdvanceIfBefore(FirstCandidate(start_date, day_of_month), start_date),
                end_date, day_of_month, <<>>)

-----------------------------------------------------------------------------
(* Weekly recurrence generator: get_dates_weekly.                          *)

DayNames ==
    <<"Monday", "Tuesday", "Wednesday", "Thursday", "Friday", "Saturday", "Sunday">>

\* days_map.get(day_str, 0)
TargetIdx(day_str) ==
    IF \E i \in 1..7 : DayNames[i] = day_str
    THEN (CHOOSE i \in 1..7 : DayNames[i] = day_str) - 1
    ELSE 0

\* 7 if freq == 'Weekly' else 14
StepDays(freq) == IF freq = "Weekly" THEN 7 ELSE 14

\* the subtraction the wrong way round
DaysAheadSwapped(target_idx, cursor) == (Weekday(cursor) - target_idx) % 7

\* (target_idx - cursor.weekday()) % 7
DaysAhead(target_idx, cursor) == (target_idx - Weekday(cursor)) % 7

RECURSIVE WeeklyLoop(_, _, _, _)
WeeklyLoop(cursor, end, freq, dates) ==
    IF cursor <= end
    THEN WeeklyLoop(cursor + StepDays(freq), end, freq, Append(dates, cursor))
    ELSE dates

get_dates_weekly(start_date, end_date, freq, day_str) ==
    WeeklyLoop(start_date + DaysAhead(TargetIdx(day_str), start_date),
               end_date, freq, <<>>)

-----------------------------------------------------------------------------
(* Transaction assembler: get_all_transactions.                            *)
(* A collection is a sequence of rows (records); a transaction is a record *)
(* [Date, Description, Category, Amount, Type].  The result is             *)
(* [raised, df]: raised is TRUE when an exception leaves the function, df  *)
(* is the returned frame, a sequence of transactions.                      *)

\* a missing date (None / NaT); no calendar date has ordinal 0
NaT == 0

\* the columns of pd.DataFrame(json): every key of every row
Columns(json) == UNION { DOMAIN json[i] : i \in 1..Len(json) }

\* pd.DataFrame(json): the rows of the frame.  A row has a cell in every
\* column; the cell of a column the row has no key for is NaN, which the
\* field isna of the frame's row records
DataFrame(json) ==
    [i \in 1..Len(json) |->
        json[i] @@ ("isna" :> (Columns(json) \ DOMAIN json[i]))]

\* the cell of the row in that column is NaN
IsNa(row, key) == "isna" \in DOMAIN row /\ key \in row.isna

\* row.get(key, default), for a cell that is not NaN
RowGet(row, key, default) == IF key \in DOMAIN row THEN row[key] ELSE default

\* the Active flag not looked at
IsActiveAlways(row) == TRUE

\* if row.get('Active', False): the default False when the frame has no
\* Active column, the cell otherwise; a NaN cell is truthy
IsActive(row) == IsNa(row, "Active") \/ RowGet(row, "Active", FALSE)

\* the amount as stored, whatever the Type
SignedAmountNoSign(row) == row.Amount

\* row['Amount'] if row.get('Type') == 'Income' else -abs(row['Amount'])
SignedAmount(row) ==
    IF RowGet(row, "Type", "") = "Income" THEN row.Amount ELSE -Abs(row.Amount)

\* the stored category, whatever the Type
CategoryOfStored(row) == RowGet(row, "Category", "Uncategorized")

\* 'Income' if row.get('Type') == 'Income' else row.get('Category', 'Uncategorized')
CategoryOf(row) ==
    IF RowGet(row, "Type", "") = "Income" THEN "Income"
    ELSE RowGet(row, "Category", "Uncategorized")

\* the dictionary appended for one row and one date
Transaction(row, d) ==
    [Date |-> d,
     Description |-> RowGet(row, "Name", "Unnamed"),
     Category |-> CategoryOf(row),
     Amount |-> SignedAmount(row),
     Type |-> RowGet(row, "Type", "Bill")]

\* 1. Seed
SeedTransaction(seed, start_date) ==
    [Date |-> start_date,
     Description |-> "Starting Balance",
     Category |-> "Deposit",
     Amount |-> seed,
     Type |-> "Seed"]

\* for d in dates: all_transactions.append(...)
RowTransactions(row, dates) == [i \in 1..Len(dates) |-> Transaction(row, dates[i])]

\* pd.Timestamp(year=start_date.year, month=12, day=31)
EndOfYear(start_date) == Timestamp(YearOf(start_date), 12, 31)

\* the transactions of a monthly row whose expansion returned r
MonthlyRowOf(row, r) ==
    [raised |-> r.raised, rows |-> RowTransactions(row, r.dates)]

\* 2. Monthly: the transactions of one row
MonthlyRow(row, start_date, end_date) ==
    IF IsActive(row)
    THEN MonthlyRowOf(row, get_dates_monthly(start_date, end_date,
                                             RowGet(row, "Day_1_31", 1)))
    ELSE [raised |-> FALSE, rows |-> <<>>]

\* 3. Weekly: the transactions of one row
WeeklyRow(row, start_date, end_date) ==
    IF IsActive(row)
    THEN [raised |-> FALSE,
          rows |-> RowTransactions(row,
                       get_dates_weekly(start_date, end_date,
                                        RowGet(row, "Freq", "Weekly"),
                                        RowGet(row, "Day_Name", "Monday")))]
    ELSE [raised |-> FALSE, rows |-> <<>>]

\* the horizon test of line 136 left out
OneTimeRowAnyDate(row, start_date, end_date) ==
    IF IsActive(row) /\ RowGet(row, "Date", NaT) # NaT
    THEN [raised |-> FALSE, rows |-> <<Transaction(row, row.Date)>>]
    ELSE [raised |-> FALSE, rows |-> <<>>]

\* 4. One-Time: the transaction of one row, if any
OneTimeRow(row, start_date, end_date) ==
    IF IsActive(row) /\ RowGet(row, "Date", NaT) # NaT
    THEN IF start_date <= row.Date /\ row.Date <= end_date
         THEN [raised |-> FALSE, rows |-> <<Transaction(row, row.Date)>>]
         ELSE [raised |-> FALSE, rows |-> <<>>]
    ELSE [raised |-> FALSE, rows |-> <<>>]

\* the body of one of the three for loops, for one row
RowOf(kind, row, start_date, end_date) ==
    IF kind = "monthly" THEN MonthlyRow(row, start_date, end_date)
    ELSE IF kind = "weekly" THEN WeeklyRow(row, start_date, end_date)
    ELSE OneTimeRow(row, start_date, end_date)

\* one of the three for loops: the rows of a collection in order, stopping
\* at the first exception
RECURSIVE Collect(_, _, _, _, _, _)
RECURSIVE CollectNext(_, _, _, _, _, _, _)
Collect(kind, json, i, start_date, end_date, acc) ==
    IF i > Len(json) THEN [raised |-> FALSE, rows |-> acc]
    ELSE CollectNext(kind, json, i, start_date, end_date, acc,
                     RowOf(kind, json[i], start_date, end_date))
CollectNext(kind, json, i, start_date, end_date, acc, r) ==
    IF r.raised THEN [raised |-> TRUE, rows |-> acc \o r.rows]
    ELSE Collect(kind, json, i + 1, start_date, end_date, acc \o r.rows)

\* Date ascending only: the second sort key left out
ComesBeforeDateOnly(a, b) == a.Date < b.Date

\* the order of sort_values(by=['Date', 'Amount'], ascending=[True, False])
ComesBefore(a, b) ==
    \/ a.Date < b.Date
    \/ a.Date = b.Date /\ a.Amount > b.Amount

\* x placed behind every row that does not come after it (a stable sort)
RECURSIVE InsertSorted(_, _)
InsertSorted(sorted, x) ==
    IF sorted = <<>> THEN <<x>>
    ELSE IF ComesBefore(x, sorted[Len(sorted)])
         THEN Append(InsertSorted(SubSeq(sorted, 1, Len(sorted) - 1), x),
                     sorted[Len(sorted)])
         ELSE Append(sorted, x)

\* df.sort_values(by=['Date', 'Amount'], ascending=[True, False], inplace=True)
RECURSIVE SortValues(_)
SortValues(rows) ==
    IF rows = <<>> THEN <<>>
    ELSE InsertSorted(SortValues(SubSeq(rows, 1, Len(rows) - 1)), rows[Len(rows)])

\* the list with the seed left out
AssembleNoSeed(seed, start_date, collected) == collected

\* all_transactions: the seed, then the collected rows
Assemble(seed, start_date, collected) ==
    <<SeedTransaction(seed, start_date)>> \o collected

\* if not all_transactions: return pd.DataFrame(); else the sorted frame
SortedFrame(all_transactions) ==
    IF all_transactions = <<>> THEN [raised |-> FALSE, df |-> <<>>]
    ELSE [raised |-> FALSE, df |-> SortValues(all_transactions)]

\* the frame of the seed and the rows m, w and o of the three loops
FrameOf(seed, start_date, m, w, o) ==
    IF m.raised \/ w.raised \/ o.raised THEN [raised |-> TRUE, df |-> <<>>]
    ELSE SortedFrame(Assemble(seed, start_date, m.rows \o w.rows \o o.rows))

get_all_transactions(seed, start_val, monthly_json, weekly_json, onetime_json) ==
    FrameOf(seed, start_val,
            Collect("monthly", DataFrame(monthly_json), 1, start_val,
                    EndOfYear(start_val), <<>>),
            Collect("weekly", DataFrame(weekly_json), 1, start_val,
                    EndOfYear(start_val), <<>>),
            Collect("onetime", DataFrame(onetime_json), 1, start_val,
                    EndOfYear(start_val), <<>>))

-----------------------------------------------------------------------------
(* Forecast builder: generate_forecast.                                    *)

\* a running sum that leaves the first row's amount out
RECURSIVE CumSumSkipFirst(_)
CumSumSkipFirst(amounts) ==
    IF amounts = <<>> THEN <<>>
    ELSE LET before == CumSumSkipFirst(SubSeq(amounts, 1, Len(amounts) - 1))
         IN  Append(before,
                    IF Len(amounts) = 1 THEN 0
                    ELSE before[Len(before)] + amounts[Len(amounts)])

\* Series.cumsum()
RECURSIVE CumSum(_)
CumSum(amounts) ==
    IF amounts = <<>> THEN <<>>
    ELSE LET before == CumSum(SubSeq(amounts, 1, Len(amounts) - 1))
         IN  Append(before,
                    (IF before = <<>> THEN 0 ELSE before[Len(before)])
                        + amounts[Len(amounts)])

\* Timestamp.strftime('%m/%d/%Y'): the text MM/DD/YYYY as its three fields
Strftime(t) == <<MonthOf(t), DayOf(t), YearOf(t)>>

\* the columns Description, Category, Amount, Checking Balance, Date of the
\* frame df with the running balance
ForecastRows(df, balance) ==
    [i \in 1..Len(df) |->
        [Description |-> df[i].Description,
         Category |-> df[i].Category,
         Amount |-> df[i].Amount,
         Checking_Balance |-> balance[i],
         Date |-> Strftime(df[i].Date)]]

\* the forecast of what get_all_transactions returned
ForecastOf(r) ==
    IF r.raised THEN [raised |-> TRUE, df |-> <<>>]
    ELSE IF r.df = <<>> THEN [raised |-> FALSE, df |-> <<>>]
    ELSE [raised |-> FALSE,
          df |-> ForecastRows(r.df, CumSum([i \in 1..Len(r.df) |-> r.df[i].Amount]))]

generate_forecast(seed, start_val, monthly_json, weekly_json, onetime_json) ==
    ForecastOf(get_all_transactions(seed, start_val, monthly_json, weekly_json,
                                    onetime_json))

-----------------------------------------------------------------------------
(* Summary metrics of the Generate Forecast button.  A quotient of two     *)
(* amounts is a fraction in lowest terms, [num, den] with den > 0.         *)

Max(a, b) == IF a >= b THEN a ELSE b

RECURSIVE GCD(_, _)
GCD(a, b) == IF b = 0 THEN a ELSE GCD(b, a % b)

\* a / b for b > 0
Quotient(a, b) ==
    [num |-> a \div GCD(Abs(a), b), den |-> b \div GCD(Abs(a), b)]

\* result_df.iloc[-1]['Checking Balance']
EndBal(result_df) == result_df[Len(result_df)].Checking_Balance

\* result_df['Checking Balance'].min()
MinBal(result_df) ==
    CHOOSE b \in { result_df[i].Checking_Balance : i \in 1..Len(result_df) } :
        \A i \in 1..Len(result_df) : b <= result_df[i].Checking_Balance

\* the months counted from the start month on, the start month one of them
MonthsRemainingInclusive(start_dt) ==
    Max(1, (YearOf(EndOfYear(start_dt)) - YearOf(start_dt)) * 12
           + (MonthOf(EndOfYear(start_dt)) - MonthOf(start_dt)) + 1)

\* max(1, ((end_of_year.year - start_dt.year) * 12)
\*        + (end_of_year.month - start_dt.month))
MonthsRemaining(start_dt) ==
    Max(1, (YearOf(EndOfYear(start_dt)) - YearOf(start_dt)) * 12
           + (MonthOf(EndOfYear(start_dt)) - MonthOf(start_dt)))

\* end_bal, min_bal, total_growth, months_remaining, avg_monthly_surplus
SummaryMetrics(current_seed, current_start_date, result_df) ==
    [end_bal |-> EndBal(result_df),
     min_bal |-> MinBal(result_df),
     total_growth |-> EndBal(result_df) - current_seed,
     months_remaining |-> MonthsRemaining(current_start_date),
     avg_monthly_surplus |->
         Quotient(EndBal(result_df) - current_seed,
                  MonthsRemaining(current_start_date))]

\* if forecast_clicked: the forecast r and, if it is not empty, its metrics
ForecastClicked(current_seed, current_start_date, r) ==
    IF r.raised THEN [raised |-> TRUE, df |-> <<>>]
    ELSE IF r.df = <<>> THEN [raised |-> FALSE, df |-> <<>>]
    ELSE [raised |-> FALSE, df |-> r.df,
          metrics |-> SummaryMetrics(current_seed, current_start_date, r.df)]

-----------------------------------------------------------------------------
(* The cache of @st.cache_data(ttl=300) around the two functions.  An      *)
(* entry is kept under the arguments of the call; a hit hands out a copy   *)
(* of the stored value.                                                    *)

\* no entry for either function
EmptyCache ==
    [get_all_transactions |-> [a \in {} |-> <<>>],
     generate_forecast |-> [a \in {} |-> <<>>]]

\* the entries with the value stored under the arguments a; a call that
\* raised stores nothing
CachePut(entries, a, value) ==
    IF value.raised THEN entries ELSE (a :> value) @@ entries

\* the entries without the one of the arguments a (its ttl ran out)
CacheDrop(entries, a) == [b \in DOMAIN entries \ {a} |-> entries[b]]

\* a miss of get_all_transactions: the body runs, what it computed is
\* stored and returned
TransactionsMiss(entries, a, computed) ==
    [value |-> computed, entries |-> CachePut(entries, a, computed), hit |-> FALSE]

\* a call of the cached get_all_transactions; computed is what the body
\* returns for the arguments a when it runs
CachedTransactions(entries, a, computed) ==
    IF a \in DOMAIN entries
    THEN [value |-> entries[a], entries |-> entries, hit |-> TRUE]
    ELSE TransactionsMiss(entries, a, computed)

\* the frame df of generate_forecast after lines 162-163: the column
\* Checking Balance added and Date turned into text, in place
MutatedFrame(r) ==
    [raised |-> r.raised,
     df |-> [i \in 1..Len(r.df) |->
                [Date |-> Strftime(r.df[i].Date),
                 Description |-> r.df[i].Description,
                 Category |-> r.df[i].Category,
                 Amount |-> r.df[i].Amount,
                 Type |-> r.df[i].Type,
                 Checking_Balance |->
                     CumSum([j \in 1..Len(r.df) |-> r.df[j].Amount])[i]]]]

\* the cache hands out the stored object itself
AfterCallerMutationShared(stored, mutated) == mutated

\* the cache hands out a copy: what the caller does to the value it got
\* leaves the stored value as it was
AfterCallerMutation(stored, mutated) == stored

\* the entries of get_all_transactions after generate_forecast has worked
\* on the value that call handed out
EntriesAfterForecast(inner, a) ==
    IF a \in DOMAIN inner.entries
    THEN (a :> AfterCallerMutation(inner.entries[a], MutatedFrame(inner.entries[a])))
             @@ inner.entries
    ELSE inner.entries

\* a miss of generate_forecast: the body runs on what the cached
\* get_all_transactions returned (inner), its value is stored and returned
ForecastMiss(c, a, inner) ==
    [value |-> ForecastOf(inner.value),
     cache |-> [get_all_transactions |-> EntriesAfterForecast(inner, a),
                generate_forecast |->
                    CachePut(c.generate_forecast, a, ForecastOf(inner.value))],
     hit |-> FALSE]

\* a call of the cached generate_forecast; computed is what the body of
\* get_all_transactions returns for the arguments a when it runs
CachedForecast(c, a, computed) ==
    IF a \in DOMAIN c.generate_forecast
    THEN [value |-> c.generate_forecast[a], cache |-> c, hit |-> TRUE]
    ELSE ForecastMiss(c, a, CachedTransactions(c.get_all_transactions, a, computed))

-----------------------------------------------------------------------------
(* Session state: initialize_session_state, the Load Example Data and      *)
(* Reset All Data buttons, the budget file loader, the sidebar inputs and  *)
(* the table editors.  st.session_state is a function from the keys it     *)
(* holds to their values.                                                  *)

\* date.today(), the day the session runs
Today == Timestamp(FirstYear, 6, 15)

\* the value None of last_saved; no file has this name
None == "None"

\* the built-in tables of initialize_session_state
ExampleMonthly ==
    <<[Active |-> TRUE, Type |-> "Bill", Name |-> "Rent/Mortgage",
       Category |-> "Housing", Amount |-> 2000, Day_1_31 |-> 1],
      [Active |-> TRUE, Type |-> "Income", Name |-> "Salary",
       Category |-> "Employment", Amount |-> 5000, Day_1_31 |-> 15]>>
ExampleWeekly ==
    <<[Active |-> TRUE, Type |-> "Bill", Name |-> "Groceries", Category |-> "Food",
       Amount |-> 200, Freq |-> "Weekly", Day_Name |-> "Saturday"],
      [Active |-> TRUE, Type |-> "Bill", Name |-> "Allowance",
       Category |-> "Personal", Amount |-> 50, Freq |-> "Weekly",
       Day_Name |-> "Friday"]>>
ExampleOnetime ==
    <<[Active |-> TRUE, Type |-> "Income", Name |-> "Tax Refund",
       Category |-> "Bonus", Amount |-> 1500, Date |-> Today + 60],
      [Active |-> TRUE, Type |-> "Bill", Name |-> "Vacation", Category |-> "Travel",
       Amount |-> 2000, Date |-> Today + 90]>>

\* the value initialize_session_state gives each key it finds missing
Defaults ==
    [monthly_data |-> ExampleMonthly,
     weekly_data |-> ExampleWeekly,
     onetime_data |-> ExampleOnetime,
     seed |-> 10000,
     start_date |-> Today,
     last_saved |-> None,
     monthly_edited |-> FALSE,
     weekly_edited |-> FALSE,
     onetime_edited |-> FALSE]

\* a session state without keys
NoKeys == [k \in {} |-> None]

\* if key not in st.session_state: st.session_state[key] = default
initialize_session_state(ss) ==
    [k \in DOMAIN Defaults \cup DOMAIN ss |->
        IF k \in DOMAIN ss THEN ss[k] ELSE Defaults[k]]

\* Load Example Data: initialize_session_state()
LoadExampleData(ss) == initialize_session_state(ss)

\* Reset All Data: every key deleted, then initialize_session_state()
ResetAllData(ss) == initialize_session_state(NoKeys)

-----------------------------------------------------------------------------
(* The budget file loader.  A JSON value of the file is a record with its  *)
(* kind: [kind |-> "number", n], [kind |-> "text"] for a text that is      *)
(* neither a number nor a date, [kind |-> "isodate", date] for a text      *)
(* YYYY-MM-DD, [kind |-> "list", rows] for a list of objects.  The loader  *)
(* returns [ss, error]: the session state it leaves and whether it showed  *)
(* st.sidebar.error.                                                       *)

\* data.get(key, default)
DataGet(data, key, default) == IF key \in DOMAIN data THEN data[key] ELSE default

\* float(x) raises for a value that is no number
FloatRaises(v) == v.kind # "number"

\* datetime.strptime(x, '%Y-%m-%d') raises for a value that is no such text
StrptimeRaises(v) == v.kind # "isodate"

\* pd.DataFrame(x) raises for a value that is no list of objects
DataFrameRaises(v) == v.kind # "list"

\* pd.to_datetime(df_ot['Date']) raises when the Date of a row is a text
\* that is no date
ToDatetimeRaises(rows) ==
    \E i \in 1..Len(rows) : "Date" \in DOMAIN rows[i] /\ rows[i].Date.kind # "isodate"

\* df_ot['Date'] = pd.to_datetime(df_ot['Date']).dt.date, if the table has
\* rows and a Date column
ParseDates(rows) ==
    IF rows # <<>> /\ "Date" \in Columns(rows)
    THEN [i \in 1..Len(rows) |->
             IF "Date" \in DOMAIN rows[i]
             THEN [rows[i] EXCEPT !.Date = rows[i].Date.date]
             ELSE rows[i]]
    ELSE rows

\* lines 284-290: the one-time table, last_saved and the success message
LoadOnetime(ss, file) ==
    IF DataFrameRaises(DataGet(file.data, "onetime", [kind |-> "list", rows |-> <<>>]))
    THEN [ss |-> ss, error |-> TRUE]
    ELSE IF ToDatetimeRaises(DataGet(file.data, "onetime",
                                     [kind |-> "list", rows |-> <<>>]).rows)
    THEN [ss |-> ss, error |-> TRUE]
    ELSE [ss |-> [ss EXCEPT
                     !.onetime_data =
                         ParseDates(DataGet(file.data, "onetime",
                                            [kind |-> "list", rows |-> <<>>]).rows),
                     !.last_saved = file.name],
          error |-> FALSE]

\* line 281: st.session_state['weekly_data'] = pd.DataFrame(...)
LoadWeekly(ss, file) ==
    IF DataFrameRaises(DataGet(file.data, "weekly", [kind |-> "list", rows |-> <<>>]))
    THEN [ss |-> ss, error |-> TRUE]
    ELSE LoadOnetime([ss EXCEPT
                         !.weekly_data =
                             DataGet(file.data, "weekly",
                                     [kind |-> "list", rows |-> <<>>]).rows],
                     file)

\* line 280: st.session_state['monthly_data'] = pd.DataFrame(...)
LoadMonthly(ss, file) ==
    IF DataFrameRaises(DataGet(file.data, "monthly", [kind |-> "list", rows |-> <<>>]))
    THEN [ss |-> ss, error |-> TRUE]
    ELSE LoadWeekly([ss EXCEPT
                        !.monthly_data =
                            DataGet(file.data, "monthly",
                                    [kind |-> "list", rows |-> <<>>]).rows],
                    file)

\* lines 277-278: st.session_state['start_date'] = strptime(...).date()
LoadStartDate(ss, file) ==
    IF StrptimeRaises(DataGet(file.data, "start_date",
                              [kind |-> "isodate", date |-> Today]))
    THEN [ss |-> ss, error |-> TRUE]
    ELSE LoadMonthly([ss EXCEPT
                         !.start_date =
                             DataGet(file.data, "start_date",
                                     [kind |-> "isodate", date |-> Today]).date],
                     file)

\* line 275: st.session_state['seed'] = float(data.get('seed', 0.0))
LoadSeed(ss, file) ==
    IF FloatRaises(DataGet(file.data, "seed", [kind |-> "number", n |-> 0]))
    THEN [ss |-> ss, error |-> TRUE]
    ELSE LoadStartDate([ss EXCEPT
                           !.seed = DataGet(file.data, "seed",
                                            [kind |-> "number", n |-> 0]).n],
                       file)

\* if uploaded_file is not None: try: data = json.load(uploaded_file) ...
\* except Exception as e: st.sidebar.error(...)
LoadBudgetFile(ss, file) ==
    IF ~file.valid_json THEN [ss |-> ss, error |-> TRUE]
    ELSE LoadSeed(ss, file)

-----------------------------------------------------------------------------
(* The generators applied to start dates, end dates, days and weekdays     *)
(* drawn from the calendar years.                                          *)

\* the dates of the years that fall on one of the given days of the month
ValidDates(days) ==
    UNION { { Timestamp(y, m, d) : d \in { dd \in days : dd <= DaysInMonth(y, m) } } :
            y \in Years, m \in 1..12 }

GenStartDates == ValidDates({1, 15, 30, 31})
GenEndDates == ValidDates({1, 15, 28, 31})
GenDays == {-1, 0, 1, 15, 29, 30, 31, 32}
WeeklyStartDates == ValidDates({1, 15})
WeeklyEndDates == ValidDates({1, 28})
Freqs == {"Weekly", "Bi-Weekly"}
GenDayNames == { DayNames[i] : i \in 1..7 }

MonthlyArgs ==
    [start_date : GenStartDates, end_date : GenEndDates, day_of_month : GenDays]
\* the weekly generator is called with an end date no later than the close
\* of the start date's year
WeeklyArgs ==
    { a \in [start_date : WeeklyStartDates, end_date : WeeklyEndDates, freq : Freqs,
             day_str : GenDayNames] : a.end_date <= EndOfYear(a.start_date) }

InitDates ==
    /\ fn = "none"
    /\ args \in MonthlyArgs \cup WeeklyArgs
    /\ ret = <<>>
    /\ cache = EmptyCache
    /\ hit = FALSE
    /\ calls = {}
    /\ session_state = initialize_session_state(NoKeys)

CallGetDatesMonthly ==
    /\ fn = "none"
    /\ "day_of_month" \in DOMAIN args
    /\ fn' = "get_dates_monthly"
    /\ ret' = get_dates_monthly(args.start_date, args.end_date, args.day_of_month)
    /\ UNCHANGED <<args, cache, hit, calls, session_state>>

CallGetDatesWeekly ==
    /\ fn = "none"
    /\ "day_str" \in DOMAIN args
    /\ fn' = "get_dates_weekly"
    /\ ret' = get_dates_weekly(args.start_date, args.end_date, args.freq, args.day_str)
    /\ UNCHANGED <<args, cache, hit, calls, session_state>>

NextDates == CallGetDatesMonthly \/ CallGetDatesWeekly

SpecDates == InitDates /\ [][NextDates]_vars

-----------------------------------------------------------------------------
(* Properties of the monthly generator.                                    *)

\* the target day clamped to the length of month m of year y
ClampedDate(y, m, day) == Timestamp(y, m, Min(day, DaysInMonth(y, m)))

\* months counted from year 0
MonthIndex(t) == YearOf(t) * 12 + MonthOf(t)

MonthlyCalled == fn = "get_dates_monthly"
ValidDay == args.day_of_month \in 1..31

\* C4: for a day of month in 1..31 and an end date on or after the start
\* date, every date get_dates_monthly emits has the day min(day, days in
\* that month), and consecutive emitted dates lie in consecutive calendar
\* months: none skipped, none twice.
C4_MonthlyClampedConsecutive ==
    (MonthlyCalled /\ ValidDay /\ args.end_date >= args.start_date) =>
        /\ ~ret.raised
        /\ \A i \in 1..Len(ret.dates) :
              DayOf(ret.dates[i]) =
                  Min(args.day_of_month,
                      DaysInMonth(YearOf(ret.dates[i]), MonthOf(ret.dates[i])))
        /\ \A i \in 1..(Len(ret.dates) - 1) :
              MonthIndex(ret.dates[i + 1]) = MonthIndex(ret.dates[i]) + 1

\* a day-31 rule whose February occurrence is clamped, followed by a longer month
C4_Witness ==
    /\ MonthlyCalled /\ args.day_of_month = 31 /\ args.end_date >= args.start_date
    /\ \E i \in 1..(Len(ret.dates) - 1) :
          /\ MonthOf(ret.dates[i]) = 2
          /\ DayOf(ret.dates[i]) \in {28, 29}
          /\ DayOf(ret.dates[i + 1]) = 31

\* the first date the claim names: the clamped day of the start month when
\* it is on or after the start date, otherwise that of the following month
FirstMonthlyDate(start_date, day) ==
    LET y == YearOf(start_date)
        m == MonthOf(start_date)
        here == ClampedDate(y, m, day)
    IN  IF here >= start_date THEN here
        ELSE IF m = 12 THEN ClampedDate(y + 1, 1, day)
        ELSE ClampedDate(y, m + 1, day)

\* the clamped dates of all months that lie in [start_date, end_date]
MonthlyDatesIn(start_date, end_date, day) ==
    { t \in { ClampedDate(y, m, day) : y \in CalendarYears, m \in 1..12 } :
        start_date <= t /\ t <= end_date }

\* C5: for a day of month in 1..31, get_dates_monthly emits first the
\* clamped day of the start month when that is on or after the start date
\* and otherwise the clamped day of the following month, never a date before
\* the start date, and then the clamped date of every month up to and
\* including the end date; nothing when the first date is after the end
\* date; from January 1 to December 31 with day 1, exactly 12 dates.
C5_MonthlyFirstAndRange ==
    (MonthlyCalled /\ ValidDay) =>
        LET first == FirstMonthlyDate(args.start_date, args.day_of_month)
        IN  /\ ~ret.raised
            /\ (Len(ret.dates) > 0) <=> (first <= args.end_date)
            /\ Len(ret.dates) > 0 => ret.dates[1] = first
            /\ \A i \in 1..Len(ret.dates) : ret.dates[i] >= args.start_date
            /\ \A i \in 1..(Len(ret.dates) - 1) : ret.dates[i] < ret.dates[i + 1]
            /\ { ret.dates[i] : i \in 1..Len(ret.dates) } =
                   MonthlyDatesIn(args.start_date, args.end_date, args.day_of_month)
            /\ ( /\ args.day_of_month = 1
                 /\ \E y \in Years : /\ args.start_date = Timestamp(y, 1, 1)
                                     /\ args.end_date = Timestamp(y, 12, 31) )
               => Len(ret.dates) = 12

\* the start month's candidate is before the start date, the emission starts
\* one month later and ends on a date equal to the end date
C5_Witness ==
    /\ MonthlyCalled /\ ValidDay
    /\ args.day_of_month < DayOf(args.start_date)
    /\ Len(ret.dates) >= 2
    /\ MonthIndex(ret.dates[1]) = MonthIndex(args.start_date) + 1
    /\ ret.dates[Len(ret.dates)] = args.end_date

-----------------------------------------------------------------------------
(* Properties of the weekly generator.                                     *)

WeeklyCalled == fn = "get_dates_weekly"

\* the first date on or after start_date that falls on the named weekday
FirstOnWeekday(start_date, day_str) ==
    CHOOSE t \in start_date..(start_date + 6) :
        \E i \in 1..7 : DayNames[i] = day_str /\ Weekday(t) = i - 1

\* C6: for a frequency Weekly or Bi-Weekly and a weekday name,
\* get_dates_weekly emits exactly d0, d0+k, d0+2k, ... up to and including
\* the end date, where d0 is the first date on or after the start date on
\* that weekday (the start date itself when it is that weekday) and k is 7
\* for Weekly and 14 for Bi-Weekly.
C6_WeeklyExactDates ==
    (WeeklyCalled /\ args.freq \in {"Weekly", "Bi-Weekly"}) =>
        LET d0 == FirstOnWeekday(args.start_date, args.day_str)
            k == IF args.freq = "Weekly" THEN 7 ELSE 14
            n == Len(ret)
        IN  /\ \A i \in 1..n : ret[i] = d0 + (i - 1) * k
            /\ \A i \in 1..n : ret[i] <= args.end_date
            /\ d0 + n * k > args.end_date
            /\ \A i \in 1..n : DayNames[Weekday(ret[i]) + 1] = args.day_str

\* a bi-weekly rule whose weekday is earlier in the week than the start
\* date's, and whose last date is the end date
C6_Witness ==
    /\ WeeklyCalled /\ args.freq = "Bi-Weekly"
    /\ DayNames[Weekday(args.start_date) + 1] = "Friday"
    /\ args.day_str = "Tuesday"
    /\ Len(ret) >= 3
    /\ ret[1] = args.start_date + 4
    /\ ret[Len(ret)] = args.end_date

-----------------------------------------------------------------------------
(* The monthly generator given a day of month outside 1..31.               *)

\* the nearest valid day of a month for a day outside 1..31
NearestValidDay(y, m, day) == IF day > 31 THEN DaysInMonth(y, m) ELSE 1

\* C11: for every day of month outside 1..31 (above 31, 0 or negative) and
\* every start and end date, get_dates_monthly completes without raising and
\* every emitted date has the nearest valid day of its month: the last day
\* for a value above 31, day 1 for a value below 1.
C11_OutOfRangeDayDegrades ==
    (MonthlyCalled /\ ~ValidDay) =>
        /\ ~ret.raised
        /\ \A i \in 1..Len(ret.dates) :
              DayOf(ret.dates[i]) =
                  NearestValidDay(YearOf(ret.dates[i]), MonthOf(ret.dates[i]),
                                  args.day_of_month)

-----------------------------------------------------------------------------
(* The assembler and the forecast builder applied to a starting balance, a *)
(* start date and three collections of at most MaxItems rows in all.       *)

Seeds == {-100, 0, 100}
StartVals ==
    {Timestamp(FirstYear, 11, 15), Timestamp(FirstYear, 12, 1),
     Timestamp(FirstYear, 12, 31)}
Types == {"Income", "Bill"}
\* the editors accept every amount >= 0
Amounts == {0, 50}
\* validate_data warns of Bills with a negative amount, which a loaded file
\* may hold
NegativeBillAmounts == {-50}

MonthlyRows ==
    [Active : {TRUE}, Type : {"Income"}, Name : {"Rent"}, Category : {"Housing"},
     Amount : Amounts, Day_1_31 : {1, 31}]
    \cup
    [Active : {TRUE}, Type : {"Bill"}, Name : {"Rent"}, Category : {"Housing"},
     Amount : Amounts \cup NegativeBillAmounts, Day_1_31 : {1, 31}]
    \cup
    [Active : {FALSE}, Type : {"Bill"}, Name : {"Rent"}, Category : {"Housing"},
     Amount : {50}, Day_1_31 : {1}]

WeeklyRows ==
    [Active : {TRUE}, Type : Types, Name : {"Groceries"}, Category : {"Food"},
     Amount : {50}, Freq : Freqs, Day_Name : {"Friday"}]
    \cup
    [Active : {FALSE}, Type : {"Income"}, Name : {"Groceries"}, Category : {"Food"},
     Amount : {50}, Freq : {"Weekly"}, Day_Name : {"Friday"}]

OnetimeDates ==
    {NaT, Timestamp(FirstYear, 12, 1), Timestamp(FirstYear, 12, 31),
     Timestamp(FirstYear + 1, 1, 1)}

OnetimeRows ==
    [Active : {TRUE}, Type : Types, Name : {"Vacation"}, Category : {"Travel"},
     Amount : {50}, Date : OnetimeDates]
    \cup
    [Active : {FALSE}, Type : {"Bill"}, Name : {"Vacation"}, Category : {"Travel"},
     Amount : {50}, Date : {Timestamp(FirstYear, 12, 31)}]

\* the numbers of rows of the three collections
Splits ==
    { s \in (0..MaxItems) \X (0..MaxItems) \X (0..MaxItems) :
        s[1] + s[2] + s[3] <= MaxItems }

\* the arguments with collections of those sizes
ForecastArgs(s) ==
    [seed : Seeds, start_val : StartVals,
     monthly_json : [1..s[1] -> MonthlyRows],
     weekly_json : [1..s[2] -> WeeklyRows],
     onetime_json : [1..s[3] -> OnetimeRows]]

Init ==
    /\ fn = "none"
    /\ \E s \in Splits : args \in ForecastArgs(s)
    /\ ret = <<>>
    /\ cache = EmptyCache
    /\ hit = FALSE
    /\ calls = {}
    /\ session_state = initialize_session_state(NoKeys)

CallGetAllTransactions ==
    /\ fn = "none"
    /\ "monthly_json" \in DOMAIN args
    /\ fn' = "get_all_transactions"
    /\ ret' = get_all_transactions(args.seed, args.start_val, args.monthly_json,
                                   args.weekly_json, args.onetime_json)
    /\ UNCHANGED <<args, cache, hit, calls, session_state>>

CallGenerateForecast ==
    /\ fn = "none"
    /\ "monthly_json" \in DOMAIN args
    /\ fn' = "generate_forecast"
    /\ ret' = generate_forecast(args.seed, args.start_val, args.monthly_json,
                                args.weekly_json, args.onetime_json)
    /\ UNCHANGED <<args, cache, hit, calls, session_state>>

Next == CallGetAllTransactions \/ CallGenerateForecast

Spec == Init /\ [][Next]_vars

-----------------------------------------------------------------------------
(* Properties of the assembled transactions and of the forecast.           *)

TransactionsCalled == fn = "get_all_transactions"
ForecastCalled == fn = "generate_forecast"
Returned == (TransactionsCalled \/ ForecastCalled) /\ ~ret.raised

\* the date a text MM/DD/YYYY stands for
ParseDate(text) == Timestamp(text[3], text[1], text[2])

\* the date of a returned row: a Timestamp in the transaction list, a text
\* in the forecast
RowDate(row) == IF ForecastCalled THEN ParseDate(row.Date) ELSE row.Date

\* the kind of a returned row; the forecast has no Type column, its seed row
\* is the one of category Deposit and its Income rows those of category Income
IsSeedRow(row) ==
    IF ForecastCalled THEN row.Category = "Deposit" ELSE row.Type = "Seed"
IsIncomeRow(row) ==
    IF ForecastCalled THEN row.Category = "Income" ELSE row.Type = "Income"
IsBillRow(row) ==
    IF ForecastCalled THEN row.Category \notin {"Deposit", "Income"}
    ELSE row.Type = "Bill"

\* the sort invariant of both outputs
SortedByDateThenAmount ==
    \A i, j \in 1..Len(ret.df) :
        i < j =>
            \/ RowDate(ret.df[i]) < RowDate(ret.df[j])
            \/ /\ RowDate(ret.df[i]) = RowDate(ret.df[j])
               /\ ret.df[i].Amount >= ret.df[j].Amount

\* C1 as stated: the rows returned by get_all_transactions and
\* generate_forecast are in date order, rows of one date in descending order
\* of signed amount, and every Income row precedes every Bill row of the
\* same date.
C1_Original_IncomeAlwaysFirst ==
    Returned =>
        /\ SortedByDateThenAmount
        /\ \A i, j \in 1..Len(ret.df) :
              ( /\ RowDate(ret.df[i]) = RowDate(ret.df[j])
                /\ IsIncomeRow(ret.df[i]) /\ IsBillRow(ret.df[j]) ) => i < j

\* C1 as amended: the rows returned by get_all_transactions and
\* generate_forecast are in date order, rows of one date in descending order
\* of signed amount, and every Income row with a positive amount precedes
\* every Bill row of the same date.
C1_SortedIncomeFirst ==
    Returned =>
        /\ SortedByDateThenAmount
        /\ \A i, j \in 1..Len(ret.df) :
              ( /\ RowDate(ret.df[i]) = RowDate(ret.df[j])
                /\ IsIncomeRow(ret.df[i]) /\ ret.df[i].Amount > 0
                /\ IsBillRow(ret.df[j]) ) => i < j

\* a Bill collected before an Income of the same date, returned behind it
C1_Witness ==
    /\ TransactionsCalled /\ ~ret.raised
    /\ Len(args.monthly_json) = 2
    /\ args.monthly_json[1].Type = "Bill" /\ args.monthly_json[1].Amount = 50
    /\ args.monthly_json[2].Type = "Income" /\ args.monthly_json[2].Amount = 50
    /\ args.monthly_json[1].Day_1_31 = args.monthly_json[2].Day_1_31
    /\ \E i \in 1..(Len(ret.df) - 1) :
          /\ ret.df[i].Type = "Income" /\ ret.df[i].Amount = 50
          /\ ret.df[i + 1].Type = "Bill" /\ ret.df[i + 1].Amount = -50
          /\ ret.df[i].Date = ret.df[i + 1].Date

\* the sum of the amounts of the rows at the positions in idx
RECURSIVE SumAt(_, _)
SumAt(rows, idx) ==
    IF idx = {} THEN 0
    ELSE LET i == CHOOSE k \in idx : TRUE
         IN  rows[i].Amount + SumAt(rows, idx \ {i})

\* C2: in the output of generate_forecast the Checking Balance of every row
\* is the sum of the signed amounts of the rows up to and including it (the
\* seed row one of them), and the last row's balance is the starting balance
\* plus the sum of all non-seed signed amounts.
C2_RunningBalanceIsPrefixSum ==
    (ForecastCalled /\ ~ret.raised) =>
        /\ \A i \in 1..Len(ret.df) :
              ret.df[i].Checking_Balance = SumAt(ret.df, 1..i)
        /\ Len(ret.df) > 0 =>
              ret.df[Len(ret.df)].Checking_Balance =
                  args.seed
                  + SumAt(ret.df, { k \in 1..Len(ret.df) : ~IsSeedRow(ret.df[k]) })

\* a forecast with an Income and a Bill on one day after the start date
C2_Witness ==
    /\ ForecastCalled /\ ~ret.raised
    /\ args.seed = 100
    /\ Len(ret.df) >= 4
    /\ \E i \in 2..(Len(ret.df) - 1) :
          /\ ret.df[i].Date = ret.df[i + 1].Date
          /\ ret.df[i].Amount = 50 /\ ret.df[i + 1].Amount = -50
          /\ ret.df[i].Checking_Balance = ret.df[i + 1].Checking_Balance + 50
    /\ ret.df[Len(ret.df)].Checking_Balance # args.seed

\* C3 as stated: the Seed transaction is the first row of the forecast, and
\* the running balance of every row is the seed plus the signed amounts of
\* the non-seed rows up to and including it.
C3_SeedFirst ==
    (ForecastCalled /\ ~ret.raised) =>
        /\ Len(ret.df) > 0 /\ IsSeedRow(ret.df[1])
        /\ \A i \in 1..Len(ret.df) :
              ret.df[i].Checking_Balance =
                  args.seed + SumAt(ret.df, { k \in 1..i : ~IsSeedRow(ret.df[k]) })

\* C7: every transaction of get_all_transactions, and every row of the
\* forecast built from it, is dated from the start date to December 31 of
\* the start date's year, both included.
C7_WithinHorizon ==
    Returned =>
        \A i \in 1..Len(ret.df) :
            /\ args.start_val <= RowDate(ret.df[i])
            /\ RowDate(ret.df[i]) <= Timestamp(YearOf(args.start_val), 12, 31)

\* a start on December 31, an active one-time item dated before it and an
\* active monthly rule whose next date is in the following year
C7_Witness ==
    /\ TransactionsCalled /\ ~ret.raised
    /\ MonthOf(args.start_val) = 12 /\ DayOf(args.start_val) = 31
    /\ Len(args.onetime_json) = 1 /\ args.onetime_json[1].Active
    /\ args.onetime_json[1].Date # NaT
    /\ args.onetime_json[1].Date < args.start_val
    /\ Len(args.monthly_json) = 1 /\ args.monthly_json[1].Active
    /\ args.monthly_json[1].Day_1_31 = 1
    /\ Len(ret.df) = 1

\* C8: the output of get_all_transactions holds exactly one transaction of
\* kind Seed, dated the start date, with the raw starting balance, the
\* description Starting Balance and the category Deposit; neither it nor the
\* forecast is ever empty.
C8_ExactlyOneSeed ==
    /\ (TransactionsCalled /\ ~ret.raised) =>
          /\ Cardinality({ i \in 1..Len(ret.df) : ret.df[i].Type = "Seed" }) = 1
          /\ \A i \in 1..Len(ret.df) :
                ret.df[i].Type = "Seed" =>
                    /\ ret.df[i].Date = args.start_val
                    /\ ret.df[i].Amount = args.seed
                    /\ ret.df[i].Description = "Starting Balance"
                    /\ ret.df[i].Category = "Deposit"
    /\ Returned => ret.df # <<>>

\* empty collections and a negative starting balance: the seed alone
C8_Witness ==
    /\ TransactionsCalled /\ ~ret.raised
    /\ args.monthly_json = <<>> /\ args.weekly_json = <<>> /\ args.onetime_json = <<>>
    /\ args.seed < 0
    /\ Len(ret.df) = 1 /\ ret.df[1].Amount = args.seed

\* the rows of the three collections
SourceRows ==
    { args.monthly_json[i] : i \in 1..Len(args.monthly_json) }
    \cup { args.weekly_json[i] : i \in 1..Len(args.weekly_json) }
    \cup { args.onetime_json[i] : i \in 1..Len(args.onetime_json) }

\* C9: every non-seed transaction of get_all_transactions comes from a
\* source of its Type whose amount gives its signed amount: +amount for
\* Income, -abs(amount) for Bill; so a Bill is never positive and an Income
\* of a non-negative amount never negative.
C9_SignConvention ==
    (TransactionsCalled /\ ~ret.raised) =>
        \A i \in 1..Len(ret.df) :
            ret.df[i].Type # "Seed" =>
                /\ \E s \in SourceRows :
                      /\ s.Active
                      /\ s.Name = ret.df[i].Description
                      /\ s.Type = ret.df[i].Type
                      /\ \/ s.Type = "Income" /\ ret.df[i].Amount = s.Amount
                         \/ /\ s.Type = "Bill"
                            /\ ret.df[i].Amount =
                                   (IF s.Amount < 0 THEN s.Amount ELSE 0 - s.Amount)
                /\ ret.df[i].Type = "Bill" => ret.df[i].Amount <= 0
                /\ ( /\ ret.df[i].Type = "Income"
                     /\ \A s \in SourceRows : s.Amount >= 0 )
                   => ret.df[i].Amount >= 0

\* a Bill of a negative amount and an Income, each with its transaction
C9_Witness ==
    /\ TransactionsCalled /\ ~ret.raised
    /\ Len(args.monthly_json) = 2
    /\ args.monthly_json[1] \in
           [Active : {TRUE}, Type : {"Bill"}, Name : {"Rent"}, Category : {"Housing"},
            Amount : {-50}, Day_1_31 : {31}]
    /\ args.monthly_json[2].Active /\ args.monthly_json[2].Type = "Income"
    /\ args.monthly_json[2].Amount = 50
    /\ \E i, j \in 1..Len(ret.df) :
          /\ ret.df[i].Type = "Bill" /\ ret.df[i].Amount = -50
          /\ ret.df[j].Type = "Income" /\ ret.df[j].Amount = 50

\* a transaction without its category
Projection(t) ==
    [Date |-> t.Date, Description |-> t.Description, Amount |-> t.Amount,
     Type |-> t.Type]

\* the transaction the claim expects of a source row on date d
Expected(row, d) ==
    [Date |-> d, Description |-> row.Name,
     Amount |-> IF row.Type = "Income" THEN row.Amount
                ELSE IF row.Amount < 0 THEN row.Amount ELSE 0 - row.Amount,
     Type |-> row.Type]

Range(seq) == { seq[i] : i \in 1..Len(seq) }

HorizonEnd == Timestamp(YearOf(args.start_val), 12, 31)

\* the dates on which the claim expects a transaction of row i of a collection
MonthlyDatesOf(i) ==
    IF args.monthly_json[i].Active
    THEN Range(get_dates_monthly(args.start_val, HorizonEnd,
                                 args.monthly_json[i].Day_1_31).dates)
    ELSE {}
WeeklyDatesOf(i) ==
    IF args.weekly_json[i].Active
    THEN Range(get_dates_weekly(args.start_val, HorizonEnd,
                                args.weekly_json[i].Freq, args.weekly_json[i].Day_Name))
    ELSE {}
OnetimeDatesOf(i) ==
    IF /\ args.onetime_json[i].Active
       /\ args.onetime_json[i].Date # NaT
       /\ args.start_val <= args.onetime_json[i].Date
       /\ args.onetime_json[i].Date <= HorizonEnd
    THEN {args.onetime_json[i].Date}
    ELSE {}

\* every (collection, row, date) of which the claim expects a transaction
ExpectedItems ==
    UNION { { <<"monthly", i, d>> : d \in MonthlyDatesOf(i) } :
            i \in 1..Len(args.monthly_json) }
    \cup UNION { { <<"weekly", i, d>> : d \in WeeklyDatesOf(i) } :
                 i \in 1..Len(args.weekly_json) }
    \cup UNION { { <<"onetime", i, d>> : d \in OnetimeDatesOf(i) } :
                 i \in 1..Len(args.onetime_json) }

ExpectedOf(item) ==
    Expected(IF item[1] = "monthly" THEN args.monthly_json[item[2]]
             ELSE IF item[1] = "weekly" THEN args.weekly_json[item[2]]
             ELSE args.onetime_json[item[2]],
             item[3])

\* C10: the non-seed transactions of get_all_transactions are exactly one
\* per active monthly rule and date of its monthly expansion, one per active
\* weekly rule and date of its weekly expansion, and one per active one-time
\* item dated within the horizon; inactive rows, one-time items without a
\* date or dated outside the horizon contribute nothing, and nothing else
\* appears.
C10_ExactlyTheExpansions ==
    (TransactionsCalled /\ ~ret.raised) =>
        LET nonseed == { i \in 1..Len(ret.df) : ret.df[i].Type # "Seed" }
            wanted == { ExpectedOf(item) : item \in ExpectedItems }
            got == { Projection(ret.df[i]) : i \in nonseed }
        IN  /\ got = wanted
            /\ \A x \in wanted :
                  Cardinality({ i \in nonseed : Projection(ret.df[i]) = x }) =
                      Cardinality({ item \in ExpectedItems : ExpectedOf(item) = x })

\* an inactive monthly rule and an active weekly rule: only the weekly rule
\* has transactions
C10_Witness ==
    /\ TransactionsCalled /\ ~ret.raised
    /\ Len(args.monthly_json) = 1 /\ ~args.monthly_json[1].Active
    /\ Len(args.weekly_json) = 1 /\ args.weekly_json[1].Active
    /\ Len(ret.df) >= 3
    /\ \A i \in 1..Len(ret.df) : ret.df[i].Type # "Seed" =>
          ret.df[i].Description = args.weekly_json[1].Name

\* the source row of an expected item
ItemRow(item) ==
    IF item[1] = "monthly" THEN args.monthly_json[item[2]]
    ELSE IF item[1] = "weekly" THEN args.weekly_json[item[2]]
    ELSE args.onetime_json[item[2]]

\* the category the claim expects of a transaction of that row
ExpectedCategory(row) == IF row.Type = "Income" THEN "Income" ELSE row.Category

\* the expected items of which t is the transaction
ItemsOf(t) == { item \in ExpectedItems : ExpectedOf(item) = Projection(t) }

\* C13: for monthly rules, weekly rules and one-time items alike, every
\* transaction of a source of Type Income has the category 'Income',
\* whatever the source's stored category, and every transaction of a source
\* of Type Bill has the source's stored category.
C13_CategoryUniform ==
    (TransactionsCalled /\ ~ret.raised) =>
        \A i \in 1..Len(ret.df) :
            ret.df[i].Type # "Seed" =>
                /\ ItemsOf(ret.df[i]) # {}
                /\ \A item \in ItemsOf(ret.df[i]) :
                      ret.df[i].Category = ExpectedCategory(ItemRow(item))
                /\ ret.df[i].Type = "Income" => ret.df[i].Category = "Income"

\* a monthly Income stored under Housing and a one-time Bill stored under
\* Travel, each with a transaction
C13_Witness ==
    /\ TransactionsCalled /\ ~ret.raised
    /\ Len(args.monthly_json) = 1 /\ Len(args.onetime_json) = 1
    /\ args.monthly_json[1].Active /\ args.monthly_json[1].Type = "Income"
    /\ args.monthly_json[1].Category = "Housing"
    /\ args.onetime_json[1].Active /\ args.onetime_json[1].Type = "Bill"
    /\ \E i, j \in 1..Len(ret.df) :
          /\ ret.df[i].Description = "Rent" /\ ret.df[i].Category = "Income"
          /\ ret.df[j].Description = "Vacation" /\ ret.df[j].Category = "Travel"

-----------------------------------------------------------------------------
(* The Generate Forecast button pressed with a starting balance, a start   *)
(* date in any part of the year, monthly rules and one-time items.         *)

SummaryStartVals ==
    {Timestamp(FirstYear, 1, 31), Timestamp(FirstYear, 6, 15),
     Timestamp(FirstYear, 10, 15), Timestamp(FirstYear, 11, 15),
     Timestamp(FirstYear, 12, 1), Timestamp(FirstYear, 12, 31)}

SummaryMonthlyRows ==
    [Active : {TRUE}, Type : Types, Name : {"Rent"}, Category : {"Housing"},
     Amount : {50}, Day_1_31 : {1, 31}]

SummaryOnetimeRows ==
    [Active : {TRUE}, Type : Types, Name : {"Vacation"}, Category : {"Travel"},
     Amount : {70}, Date : {Timestamp(FirstYear, 12, 31)}]

SummaryArgs(s) ==
    [seed : Seeds, start_val : SummaryStartVals,
     monthly_json : [1..s[1] -> SummaryMonthlyRows],
     weekly_json : {<<>>},
     onetime_json : [1..s[3] -> SummaryOnetimeRows]]

InitSummary ==
    /\ fn = "none"
    /\ \E s \in Splits : s[2] = 0 /\ args \in SummaryArgs(s)
    /\ ret = <<>>
    /\ cache = EmptyCache
    /\ hit = FALSE
    /\ calls = {}
    /\ session_state = initialize_session_state(NoKeys)

\* the Generate Forecast button
ClickGenerateForecast ==
    /\ fn = "none"
    /\ fn' = "forecast_clicked"
    /\ ret' = ForecastClicked(args.seed, args.start_val,
                              generate_forecast(args.seed, args.start_val,
                                                args.monthly_json, args.weekly_json,
                                                args.onetime_json))
    /\ UNCHANGED <<args, cache, hit, calls, session_state>>

NextSummary == ClickGenerateForecast

SpecSummary == InitSummary /\ [][NextSummary]_vars

-----------------------------------------------------------------------------
(* Properties of the summary metrics.                                      *)

ForecastShown == fn = "forecast_clicked" /\ ~ret.raised

\* the divisor the claim names
ClaimedDivisor == Max(1, 12 - MonthOf(args.start_val))

\* C15: for every forecast the ending balance is the running balance of the
\* last row, the minimum balance is at most the running balance of every
\* row, and the average monthly surplus is (ending balance - seed) divided
\* by max(1, 12 - start month); that divisor is at least 1, and 1 for a
\* start in November or December.
C15_SummaryMetrics ==
    ForecastShown =>
        /\ "metrics" \in DOMAIN ret
        /\ ret.metrics.end_bal = ret.df[Len(ret.df)].Checking_Balance
        /\ \A i \in 1..Len(ret.df) :
              ret.metrics.min_bal <= ret.df[i].Checking_Balance
        /\ ret.metrics.months_remaining = ClaimedDivisor
        /\ ret.metrics.months_remaining >= 1
        /\ MonthOf(args.start_val) \in {11, 12} => ret.metrics.months_remaining = 1
        /\ ret.metrics.avg_monthly_surplus.den > 0
        /\ ret.metrics.avg_monthly_surplus.num * ClaimedDivisor =
               (ret.metrics.end_bal - args.seed) * ret.metrics.avg_monthly_surplus.den

\* a forecast from June, six months remaining, that falls after a rise,
\* ends above its seed, and whose average surplus is no whole amount
C15_Witness ==
    /\ ForecastShown
    /\ ret.metrics.months_remaining = 6
    /\ ret.metrics.end_bal > args.seed
    /\ ret.metrics.avg_monthly_surplus.den > 1
    /\ \E i \in 1..(Len(ret.df) - 1) :
          ret.df[i].Checking_Balance > ret.df[i + 1].Checking_Balance

-----------------------------------------------------------------------------
(* The assembler and the forecast builder applied to collections in which  *)
(* rows may lack the Active key.                                           *)

\* the row without its Active key
WithoutActive(row) == [k \in DOMAIN row \ {"Active"} |-> row[k]]

\* the rows, each with or without its Active key
OptionalActive(rows) == rows \cup { WithoutActive(r) : r \in rows }

FlagMonthlyRows ==
    OptionalActive([Active : BOOLEAN, Type : Types, Name : {"Rent"},
                    Category : {"Housing"}, Amount : {50}, Day_1_31 : {1}])
FlagWeeklyRows ==
    OptionalActive([Active : BOOLEAN, Type : Types, Name : {"Groceries"},
                    Category : {"Food"}, Amount : {50}, Freq : {"Weekly"},
                    Day_Name : {"Friday"}])
FlagOnetimeRows ==
    OptionalActive([Active : BOOLEAN, Type : Types, Name : {"Vacation"},
                    Category : {"Travel"}, Amount : {50},
                    Date : {Timestamp(FirstYear, 12, 31)}])

FlagArgs(s) ==
    [seed : {100}, start_val : {Timestamp(FirstYear, 12, 1)},
     monthly_json : [1..s[1] -> FlagMonthlyRows],
     weekly_json : [1..s[2] -> FlagWeeklyRows],
     onetime_json : [1..s[3] -> FlagOnetimeRows]]

InitFlag ==
    /\ fn = "none"
    /\ \E s \in Splits : args \in FlagArgs(s)
    /\ ret = <<>>
    /\ cache = EmptyCache
    /\ hit = FALSE
    /\ calls = {}
    /\ session_state = initialize_session_state(NoKeys)

SpecFlag == InitFlag /\ [][Next]_vars

HasActive(row) == "Active" \in DOMAIN row

\* the rows of a collection that carry the Active key
Flagged(json) == SelectSeq(json, HasActive)

\* C12: a monthly rule, weekly rule or one-time item without the Active key
\* contributes no transaction, whether the key is absent from every row of
\* its collection or only from that row: both functions return what they
\* return for the collections with those rows removed.
C12_MissingActiveIsInactive ==
    /\ TransactionsCalled =>
          ret = get_all_transactions(args.seed, args.start_val,
                                     Flagged(args.monthly_json),
                                     Flagged(args.weekly_json),
                                     Flagged(args.onetime_json))
    /\ ForecastCalled =>
          ret = generate_forecast(args.seed, args.start_val,
                                  Flagged(args.monthly_json),
                                  Flagged(args.weekly_json),
                                  Flagged(args.onetime_json))

-----------------------------------------------------------------------------
(* Calls of the two functions through the cache, in any order, with        *)
(* entries that expire in between.                                         *)

\* largest number of different argument tuples used in one behaviour
MaxCachedArgs == 2

BaseArgs ==
    [seed |-> 100,
     start_val |-> Timestamp(FirstYear, 12, 15),
     monthly_json |-> <<[Active |-> TRUE, Type |-> "Bill", Name |-> "Rent",
                         Category |-> "Housing", Amount |-> 50, Day_1_31 |-> 31]>>,
     weekly_json |-> <<[Active |-> TRUE, Type |-> "Bill", Name |-> "Groceries",
                        Category |-> "Food", Amount |-> 50, Freq |-> "Weekly",
                        Day_Name |-> "Friday"]>>,
     onetime_json |-> <<[Active |-> TRUE, Type |-> "Bill", Name |-> "Vacation",
                         Category |-> "Travel", Amount |-> 50,
                         Date |-> Timestamp(FirstYear, 12, 31)]>>]

\* the base arguments and three more, each different from the base in one
\* field: the seed, the start date, one cell of a collection
CacheArgs ==
    { BaseArgs,
      [BaseArgs EXCEPT !.seed = 0],
      [BaseArgs EXCEPT !.start_val = Timestamp(FirstYear, 12, 31)],
      [BaseArgs EXCEPT !.onetime_json[1].Category = "Bonus"] }

\* the argument tuples used so far
UsedArgs == { c.args : c \in calls }

InitCache ==
    /\ fn = "none"
    /\ args = <<>>
    /\ ret = <<>>
    /\ cache = EmptyCache
    /\ hit = FALSE
    /\ calls = {}
    /\ session_state = initialize_session_state(NoKeys)

\* the body of get_all_transactions applied to the arguments a
TransactionsOf(a) ==
    get_all_transactions(a.seed, a.start_val, a.monthly_json, a.weekly_json,
                         a.onetime_json)

\* the state after a call with the arguments a that went as r tells
Called(name, a, r) ==
    /\ fn' = name
    /\ args' = a
    /\ ret' = r.value
    /\ hit' = r.hit
    /\ cache' = r.cache
    /\ calls' = calls \cup {[fn |-> name, args |-> a, ret |-> r.value]}
    /\ UNCHANGED session_state

\* the outcome of a call of the cached get_all_transactions
TransactionsCall(c, r) ==
    [value |-> r.value, hit |-> r.hit,
     cache |-> [c EXCEPT !.get_all_transactions = r.entries]]

\* the script calls get_all_transactions
CallCachedTransactions ==
    \E a \in CacheArgs :
        /\ Cardinality(UsedArgs \cup {a}) <= MaxCachedArgs
        /\ Called("get_all_transactions", a,
                  TransactionsCall(cache,
                      CachedTransactions(cache.get_all_transactions, a,
                                         TransactionsOf(a))))

\* the script calls generate_forecast
CallCachedForecast ==
    \E a \in CacheArgs :
        /\ Cardinality(UsedArgs \cup {a}) <= MaxCachedArgs
        /\ Called("generate_forecast", a,
                  CachedForecast(cache, a, TransactionsOf(a)))

\* ttl=300: an entry is dropped
ExpireEntry ==
    \E name \in {"get_all_transactions", "generate_forecast"} :
        \E a \in DOMAIN cache[name] :
            /\ cache' = [cache EXCEPT ![name] = CacheDrop(cache[name], a)]
            /\ UNCHANGED <<fn, args, ret, hit, calls, session_state>>

NextCache == CallCachedTransactions \/ CallCachedForecast \/ ExpireEntry

SpecCache == InitCache /\ [][NextCache]_vars

\* what the function computes for those arguments without a cache
Uncached(name, a) ==
    IF name = "get_all_transactions" THEN TransactionsOf(a)
    ELSE generate_forecast(a.seed, a.start_val, a.monthly_json, a.weekly_json,
                           a.onetime_json)

\* C14: over any sequence of calls of get_all_transactions and
\* generate_forecast, served from the cache or recomputed, two calls of the
\* same function with identical arguments returned identical results, and
\* every call returned what the function computes for its own arguments:
\* never the result cached for other arguments, and never a frame that an
\* earlier generate_forecast call has added columns to or reformatted.
C14_CacheDeterministic ==
    /\ \A c1, c2 \in calls :
          (c1.fn = c2.fn /\ c1.args = c2.args) => c1.ret = c2.ret
    /\ \A c \in calls : c.ret = Uncached(c.fn, c.args)
    /\ \A c1, c2 \in calls :
          (c1.fn = c2.fn /\ c1.args # c2.args) => c1.ret # c2.ret

\* get_all_transactions served from the entry that a generate_forecast call
\* with the same arguments left, after calls of both functions with other
\* arguments
C14_Witness ==
    /\ fn = "get_all_transactions" /\ hit
    /\ args \notin DOMAIN cache.generate_forecast
    /\ \E c \in calls : c.fn = "generate_forecast" /\ c.args = args
    /\ \E c \in calls : c.fn = "generate_forecast" /\ c.args # args
    /\ \E c \in calls : c.fn = "get_all_transactions" /\ c.args # args

-----------------------------------------------------------------------------
(* A session: the buttons, the file loader, the sidebar inputs and the     *)
(* table editors used in any order.                                        *)

FileMonthly ==
    <<[Active |-> TRUE, Type |-> "Bill", Name |-> "Power", Category |-> "Utilities",
       Amount |-> 120, Day_1_31 |-> 5]>>
FileWeekly ==
    <<[Active |-> TRUE, Type |-> "Income", Name |-> "Tutoring",
       Category |-> "Employment", Amount |-> 80, Freq |-> "Bi-Weekly",
       Day_Name |-> "Monday"]>>
FileOnetime ==
    <<[Active |-> TRUE, Type |-> "Bill", Name |-> "Gifts", Category |-> "Holidays",
       Amount |-> 300,
       Date |-> [kind |-> "isodate", date |-> Timestamp(FirstYear, 12, 24)]]>>

\* the content of a budget file the export wrote
GoodData ==
    [seed |-> [kind |-> "number", n |-> 500],
     start_date |-> [kind |-> "isodate", date |-> Timestamp(FirstYear, 7, 1)],
     monthly |-> [kind |-> "list", rows |-> FileMonthly],
     weekly |-> [kind |-> "list", rows |-> FileWeekly],
     onetime |-> [kind |-> "list", rows |-> FileOnetime]]

\* that content with one value that the loader cannot take
BadData ==
    { [GoodData EXCEPT !.seed = [kind |-> "text"]],
      [GoodData EXCEPT !.start_date = [kind |-> "text"]],
      [GoodData EXCEPT !.monthly = [kind |-> "number", n |-> 5]],
      [GoodData EXCEPT !.weekly = [kind |-> "number", n |-> 5]],
      [GoodData EXCEPT !.onetime = [kind |-> "number", n |-> 5]],
      [GoodData EXCEPT !.onetime.rows[1].Date = [kind |-> "text"]] }

\* the files a user may upload: well formed, without any key, with one bad
\* value, and one that is no JSON at all
Files ==
    [name : {"budget.json"}, valid_json : {TRUE},
     data : {GoodData, NoKeys} \cup BadData]
    \cup [name : {"budget.json"}, valid_json : {FALSE}, data : {NoKeys}]

\* the tables a user may leave in an editor
EditedTables ==
    [monthly_data |-> {<<>>, <<ExampleMonthly[1]>>},
     weekly_data |-> {<<>>, <<ExampleWeekly[2]>>},
     onetime_data |-> {<<>>, <<ExampleOnetime[1]>>}]

\* the key of the flag sync_data_editors sets for a table
EditedFlag ==
    [monthly_data |-> "monthly_edited", weekly_data |-> "weekly_edited",
     onetime_data |-> "onetime_edited"]

\* the values a user may enter in the sidebar
SidebarSeeds == {0, 10000}
SidebarStartDates == {Today, Timestamp(FirstYear, 7, 1)}

InitSession ==
    /\ fn = "none"
    /\ args = <<>>
    /\ ret = <<>>
    /\ cache = EmptyCache
    /\ hit = FALSE
    /\ calls = {}
    /\ session_state = initialize_session_state(NoKeys)

\* the Load Example Data button
ClickLoadExampleData ==
    /\ fn' = "load_example_data"
    /\ args' = <<>>
    /\ ret' = [error |-> FALSE, message |-> "Example data loaded!"]
    /\ session_state' = LoadExampleData(session_state)
    /\ UNCHANGED <<cache, hit, calls>>

\* the Reset All Data button
ClickResetAllData ==
    /\ fn' = "reset_all_data"
    /\ args' = <<>>
    /\ ret' = [error |-> FALSE, message |-> "All data reset!"]
    /\ session_state' = ResetAllData(session_state)
    /\ UNCHANGED <<cache, hit, calls>>

\* a file is uploaded and the loader runs
UploadBudgetFile ==
    \E file \in Files :
        /\ fn' = "load_budget_file"
        /\ args' = [file |-> file]
        /\ ret' = [error |-> LoadBudgetFile(session_state, file).error]
        /\ session_state' = LoadBudgetFile(session_state, file).ss
        /\ UNCHANGED <<cache, hit, calls>>

\* a table is edited: sync_data_editors sets its flag and the editor's
\* table replaces the stored one
EditTable ==
    \E key \in DOMAIN EditedTables :
        \E table \in EditedTables[key] :
            /\ fn' = "data_editor"
            /\ args' = [key |-> key]
            /\ ret' = <<>>
            /\ session_state' =
                   [session_state EXCEPT ![key] = table, ![EditedFlag[key]] = TRUE]
            /\ UNCHANGED <<cache, hit, calls>>

\* the sidebar inputs: st.session_state['seed'] = current_seed,
\* st.session_state['start_date'] = current_start_date
SetSidebarInputs ==
    \E current_seed \in SidebarSeeds, current_start_date \in SidebarStartDates :
        /\ fn' = "sidebar_inputs"
        /\ args' = <<>>
        /\ ret' = <<>>
        /\ session_state' = [session_state EXCEPT !.seed = current_seed,
                                                  !.start_date = current_start_date]
        /\ UNCHANGED <<cache, hit, calls>>

NextSession ==
    \/ ClickLoadExampleData
    \/ ClickResetAllData
    \/ UploadBudgetFile
    \/ EditTable
    \/ SetSidebarInputs

SpecSession == InitSession /\ [][NextSession]_vars

\* the stored configuration
ConfigKeys ==
    {"seed", "start_date", "monthly_data", "weekly_data", "onetime_data", "last_saved"}

\* the file is rejected: no JSON, a seed that is no number, a start date not
\* of the form YYYY-MM-DD, a collection that is no table, a one-time date
\* that is no date
Rejected(file) ==
    \/ ~file.valid_json
    \/ "seed" \in DOMAIN file.data /\ file.data.seed.kind # "number"
    \/ "start_date" \in DOMAIN file.data /\ file.data.start_date.kind # "isodate"
    \/ \E c \in {"monthly", "weekly", "onetime"} :
          c \in DOMAIN file.data /\ file.data[c].kind # "list"
    \/ /\ "onetime" \in DOMAIN file.data
       /\ file.data.onetime.kind = "list"
       /\ \E i \in 1..Len(file.data.onetime.rows) :
             file.data.onetime.rows[i].Date.kind # "isodate"

\* C16: when the load of a budget file fails at any step, an error is shown
\* and seed, start_date, monthly_data, weekly_data, onetime_data and
\* last_saved are what they were before the load: no value of the rejected
\* file is stored.
C16_FailedLoadChangesNothing ==
    [][ (fn' = "load_budget_file" /\ Rejected(args'.file)) =>
            /\ ret'.error
            /\ \A k \in ConfigKeys : session_state'[k] = session_state[k] ]_vars

\* C17: after Load Example Data, from any session state, monthly_data,
\* weekly_data and onetime_data are the built-in example tables; after Reset
\* All Data every key holds its built-in default.
C17_ExampleAndResetRestoreDefaults ==
    /\ fn = "load_example_data" =>
          /\ session_state.monthly_data = ExampleMonthly
          /\ session_state.weekly_data = ExampleWeekly
          /\ session_state.onetime_data = ExampleOnetime
    /\ fn = "reset_all_data" => session_state = Defaults

====
